---- MODULE Spec2Model ----
(***************************************************************************)
(* Camera viewpoint navigation and transition engine of App.jsx.           *)
(*                                                                         *)
(* The model follows the useEffect body of src/src/App.jsx: the closure    *)
(* variables isAnimating and scrollTimeout, the camera and OrbitControls   *)
(* objects, the React state currentViewpoint / customPosition /            *)
(* customLookAt, the pending setTimeout timers and the requestAnimationFrame*)
(* callback queue.  Every JavaScript task (a wheel event, a timer callback, *)
(* a click, one animation-frame callback) is one atomic action.            *)
(*                                                                         *)
(* Numbers: coordinates are fixed-point hundredths (52 is written 5200);   *)
(* the ease value is fixed-point thousandths.  The clock is in             *)
(* milliseconds, as Date.now().                                            *)
(***************************************************************************)
EXTENDS Integers, Sequences, FiniteSets, TLC

(***************************************************************************)
(* Bounds of the model and constants of the program.                       *)
(***************************************************************************)
\* Horizon of the clock in Spec: no frame is displayed after MaxTime ms.
MaxTime == 2300

\* Horizon of the clock in SpecBurst.
MaxBurstTime == 200

\* setTimeout(..., 100) of the wheel handler.
DebounceMs == 100

\* Default value of animateToViewpoint's duration parameter.
DefaultDuration == 2000

\* Number of navigation intents emitted in a behaviour of Spec.
MaxIntents == 2

\* Number of navigation intents emitted in a behaviour of SpecBurst.
MaxBurstIntents == 3

\* Number of navigation intents emitted in a behaviour of SpecNav.
MaxNavIntents == 7

\* Number of navigation intents emitted in a behaviour of SpecForm.
MaxFormIntents == 1

\* Number of edits of form fields in a behaviour of SpecForm.
MaxEdits == 2

\* Number of calls of controls.update() over which a pointer move keeps
\* rotating the camera (enableDamping: the rotation asked for decays, it is
\* not applied at once).
DampingUpdates == 2

\* Intervals between two displayed frames (ms) in Spec.
FrameSteps == {100, 500}

\* Intervals between two displayed frames (ms) in SpecBurst.
BurstSteps == {30, 100}

\* Intervals between two displayed frames (ms) in SpecNav.
NavSteps == {100, 1000}

\* Intervals between two displayed frames (ms) in SpecForm.
FormSteps == {1000}

\* Horizon of the clock in SpecClock.
MaxClockTime == 2100

\* Changes of Date.now() between two displayed frames (ms) in SpecClock.
\* Date.now() is the wall clock: it advances, and it can be set back.
ClockSteps == {-10, 1}

\* Clock readings at which the user clicks on Apply Position in SpecClock.
ClickTimes == {0, 30}

\* Last clock reading in SpecLive at which an idle frame is displayed or the
\* user clicks.
MaxLiveTime == 2000

\* Number of navigation intents emitted in a behaviour of SpecLive.
MaxLiveIntents == 2

\* Intervals between two displayed frames (ms) in SpecLive.
LiveSteps == {500, 1000}

\* Intervals between two displayed frames (ms) in SpecLegacy.
LegacySteps == {100, 1000}

\* Horizon of the clock in SpecCleanup.
MaxCleanupTime == 400

\* Number of navigation intents emitted in a behaviour of SpecCleanup.
MaxCleanupIntents == 2

\* Intervals between two displayed frames (ms) in SpecCleanup.
CleanupSteps == {50, 100}

\* deltaY values of the wheel events that are fed to the handler.
DeltaYs == {-100, 0, 100}

\* Values of a numeric form field after an edit: emptied, not a number,
\* and two numbers.
InputTexts == {"", "abc", "0", "1.5"}

Axes == {1, 2, 3}

Vec(x, y, z) == <<x * 100, y * 100, z * 100>>

\* The catalog of camera viewpoints (useMemo).
viewpoints ==
  << [position |-> Vec(52, -7, 5),   lookAt |-> Vec(43, -3, 16), name |-> "City Overview"],
     [position |-> Vec(59, -8, -9),  lookAt |-> Vec(59, 4, -40), name |-> "Tall Building"],
     [position |-> Vec(-10, 2, 5),   lookAt |-> Vec(0, 2, 0),    name |-> "Street Level"],
     [position |-> Vec(15, 8, -10),  lookAt |-> Vec(0, 5, 0),    name |-> "Corner View"],
     [position |-> Vec(0, 5, 15),    lookAt |-> Vec(0, 0, 0),    name |-> "Central Plaza"],
     [position |-> Vec(-15, 12, 0),  lookAt |-> Vec(0, 5, 0),    name |-> "Side Angle"] >>

\* viewpoints.length
Length == Len(viewpoints)

\* viewpoints[index] with JavaScript's 0-based index; undefined outside the
\* array.
Undefined == [undefined |-> TRUE]

ViewpointAt(index) ==
  IF index \in 0..(Length - 1) THEN viewpoints[index + 1] ELSE Undefined

VARIABLES
  now,               \* Date.now()
  currentViewpoint,  \* useState(0)
  customPosition,    \* useState({x: 0, y: 30, z: 0})
  customLookAt,      \* useState({x: 0, y: 0, z: 0})
  isEditing,         \* isEditingRef.current
  isUserInteracting, \* isUserInteractingRef.current
  cameraPosition,    \* camera.position
  controlsTarget,    \* controls.target
  sphericalDelta,    \* rotation the pointer has asked of OrbitControls, not yet
                     \* applied: the number of calls of update() it still acts on
  isAnimating,       \* let isAnimating
  trans,             \* closure of the running transition's animate callback
  timers,            \* pending setTimeout timers
  scrollTimeout,     \* let scrollTimeout (a timer id, 0 for undefined)
  rafQueue,          \* callbacks registered with requestAnimationFrame for the next frame
  frameQueue,        \* callbacks of the frame that is being run, still to be called
  cleanedUp,         \* the cleanup function of the effect has run
  \* History variables: they record what happened and are read by no handler.
  nextCount,         \* intents emitted through the updater's (prev + 1) branch
  prevCount,         \* intents emitted through the updater's (prev - 1) branch
  burst,             \* the open burst of wheel events: time of its first event,
                     \* time and deltaY of its last event, whether its events
                     \* differ in deltaY, intents emitted for it so far
  closedBurst,       \* the burst that the last step closed by emitting its intent
  editCount,         \* edits of the form's fields so far
  rejectedAt         \* time at which animateToViewpoint dropped the last advance
                     \* request, while no input followed it; -1 otherwise

vars == <<now, currentViewpoint, customPosition, customLookAt, isEditing,
          isUserInteracting, cameraPosition, controlsTarget, sphericalDelta,
          isAnimating, trans, timers, scrollTimeout, rafQueue, frameQueue,
          cleanedUp, nextCount, prevCount, burst, closedBurst, editCount, rejectedAt>>

historyVars == <<nextCount, prevCount, burst, closedBurst, editCount, rejectedAt>>

\* Value of burst and closedBurst when there is no such burst.
NoBurst == [open |-> FALSE]

\* Value of trans when no transition's closure is alive.
NoTransition == [active |-> FALSE]

(***************************************************************************)
(* Arithmetic of JavaScript and of THREE.Vector3.                          *)
(***************************************************************************)
\* a % n of JavaScript: the remainder takes the sign of the dividend.
JsRem(a, n) == IF a >= 0 THEN a % n ELSE -((-a) % n)

\* Math.min
Min(a, b) == IF a <= b THEN a ELSE b

\* Math.min(elapsed / duration, 1), in thousandths.
Progress(elapsed, duration) == Min((elapsed * 1000) \div duration, 1000)

\* The ease without the division by 2 of its second branch.
EaseUnhalved(progress) ==
  LET u == 2000 - 2 * progress
  IN IF progress < 500
       THEN (2 * progress * progress) \div 1000
       ELSE 1000 - (u * u * u) \div 1000000

\* progress < 0.5 ? 2 p p : 1 - Math.pow(-2 p + 2, 3) / 2, in thousandths.
Ease(progress) ==
  LET u == 2000 - 2 * progress
  IN IF progress < 500
       THEN (2 * progress * progress) \div 1000
       ELSE 1000 - (u * u * u) \div 2000000

\* Vector3.lerpVectors(v1, v2, alpha): v1 + (v2 - v1) * alpha.
LerpVectors(v1, v2, alpha) ==
  [i \in Axes |-> v1[i] + ((v2[i] - v1[i]) * alpha) \div 1000]

\* OrbitControls.update(): applies the rotation the pointer asked for to the
\* camera position, about the vertical axis through the target (a half turn
\* per call in this model), and leaves the position alone otherwise.
ControlsUpdate(position, target, delta) ==
  IF delta = 0
    THEN position
    ELSE <<2 * target[1] - position[1], position[2], 2 * target[3] - position[3]>>

\* The rotation still asked for after a call of OrbitControls.update() with
\* enableDamping: one call applies a part of it and keeps the rest.
Damped(delta) == IF delta > 0 THEN delta - 1 ELSE 0

(***************************************************************************)
(* Index steps of the setCurrentViewpoint updater.                         *)
(***************************************************************************)
\* The advance step without its "% viewpoints.length".
NextIndexNoWrap(prev) == prev + 1

\* (prev + 1) % viewpoints.length
NextIndex(prev) == JsRem(prev + 1, Length)

\* The retreat step without its "+ viewpoints.length".
PrevIndexNoWrap(prev) == JsRem(prev - 1, Length)

\* (prev - 1 + viewpoints.length) % viewpoints.length
PrevIndex(prev) == JsRem(prev - 1 + Length, Length)

\* The updater with the scroll direction inverted.
StepIndexInverted(prev, deltaY) == IF deltaY < 0 THEN NextIndex(prev) ELSE PrevIndex(prev)

\* event.deltaY > 0 ? next : prev
StepIndex(prev, deltaY) == IF deltaY > 0 THEN NextIndex(prev) ELSE PrevIndex(prev)

(***************************************************************************)
(* The transition controller: animateToViewpoint and its animate callback. *)
(* An engine value e is the part of the state these functions read and     *)
(* write.                                                                  *)
(***************************************************************************)
Engine ==
  [cameraPosition |-> cameraPosition, controlsTarget |-> controlsTarget,
   sphericalDelta |-> sphericalDelta, isAnimating |-> isAnimating,
   isEditing |-> isEditing, trans |-> trans, rafQueue |-> rafQueue]

\* The animate callback without the reset of isAnimating at its end.
TransitionAnimateStuck(e, t) ==
  LET elapsed  == t - e.trans.startTime
      progress == Progress(elapsed, e.trans.duration)
      ease     == Ease(progress)
      position == LerpVectors(e.trans.startPosition, e.trans.targetPosition, ease)
      target   == LerpVectors(e.trans.startLookAt, e.trans.targetLookAt, ease)
      moved    == [e EXCEPT !.cameraPosition = ControlsUpdate(position, target, e.sphericalDelta),
                            !.controlsTarget = target,
                            !.sphericalDelta = Damped(e.sphericalDelta)]
  IN IF progress < 1000
       THEN [moved EXCEPT !.rafQueue = Append(e.rafQueue, "transition")]
       ELSE [moved EXCEPT !.isEditing = FALSE]

\* One call of the transition's animate callback at clock reading t.
TransitionAnimate(e, t) ==
  LET elapsed  == t - e.trans.startTime
      progress == Progress(elapsed, e.trans.duration)
      ease     == Ease(progress)
      position == LerpVectors(e.trans.startPosition, e.trans.targetPosition, ease)
      target   == LerpVectors(e.trans.startLookAt, e.trans.targetLookAt, ease)
      moved    == [e EXCEPT !.cameraPosition = ControlsUpdate(position, target, e.sphericalDelta),
                            !.controlsTarget = target,
                            !.sphericalDelta = Damped(e.sphericalDelta)]
  IN IF progress < 1000
       THEN [moved EXCEPT !.rafQueue = Append(e.rafQueue, "transition")]
       ELSE [moved EXCEPT !.isAnimating = FALSE,
                          !.isEditing = FALSE,
                          !.trans = NoTransition]

\* animateToViewpoint without its first line, if (isAnimating) return.
AnimateToViewpointUnguarded(e, targetPosition, targetLookAt, duration, t) ==
  TransitionAnimate(
    [e EXCEPT !.isEditing = TRUE,
              !.isAnimating = TRUE,
              !.trans = [active |-> TRUE,
                         startPosition |-> e.cameraPosition,
                         startLookAt |-> e.controlsTarget,
                         startTime |-> t,
                         targetPosition |-> targetPosition,
                         targetLookAt |-> targetLookAt,
                         duration |-> duration]],
    t)

\* animateToViewpoint(targetPosition, targetLookAt, duration) at clock reading t.
AnimateToViewpoint(e, targetPosition, targetLookAt, duration, t) ==
  IF e.isAnimating
    THEN e
    ELSE TransitionAnimate(
           [e EXCEPT !.isEditing = TRUE,
                     !.isAnimating = TRUE,
                     !.trans = [active |-> TRUE,
                                startPosition |-> e.cameraPosition,
                                startLookAt |-> e.controlsTarget,
                                startTime |-> t,
                                targetPosition |-> targetPosition,
                                targetLookAt |-> targetLookAt,
                                duration |-> duration]],
           t)

\* setViewpoint that retargets the running transition instead of leaving it alone.
SetViewpointRetargeting(e, index, t) ==
  IF e.isAnimating
    THEN [e EXCEPT !.trans.targetPosition = ViewpointAt(index).position,
                   !.trans.targetLookAt = ViewpointAt(index).lookAt]
    ELSE AnimateToViewpoint(e, ViewpointAt(index).position, ViewpointAt(index).lookAt,
                            DefaultDuration, t)

\* setViewpoint(index).  Reading vp.position of an undefined vp throws a
\* TypeError before animateToViewpoint is called.
SetViewpoint(e, index, t) ==
  IF ViewpointAt(index) = Undefined
    THEN e
    ELSE AnimateToViewpoint(e, ViewpointAt(index).position, ViewpointAt(index).lookAt,
                            DefaultDuration, t)

\* setCustomViewpoint with its two arguments exchanged.
SetCustomViewpointSwapped(e, pos, look, t) ==
  AnimateToViewpoint(e, look, pos, DefaultDuration, t)

\* window.setCustomViewpoint(pos, look)
SetCustomViewpoint(e, pos, look, t) ==
  AnimateToViewpoint(e, pos, look, DefaultDuration, t)

\* The engine variables take the values of the engine value e.
EngineBecomes(e) ==
  /\ cameraPosition' = e.cameraPosition
  /\ controlsTarget' = e.controlsTarget
  /\ sphericalDelta' = e.sphericalDelta
  /\ isAnimating' = e.isAnimating
  /\ isEditing' = e.isEditing
  /\ trans' = e.trans
  /\ rafQueue' = e.rafQueue

engineVars == <<cameraPosition, controlsTarget, sphericalDelta, isAnimating,
                isEditing, trans, rafQueue>>

(***************************************************************************)
(* Timers: setTimeout and clearTimeout.                                    *)
(***************************************************************************)
\* The id setTimeout returns: one that no pending timer has.
FreshTimerId(ts) == CHOOSE i \in 1..(Cardinality(ts) + 1) : \A t \in ts : t.id # i

\* A clearTimeout that cancels nothing.
ClearTimeoutForgotten(ts, id) == ts

\* clearTimeout(id)
ClearTimeout(ts, id) == {t \in ts : t.id # id}

\* setTimeout(callback, delay) at clock reading t; the callback closes over
\* the wheel event, of which it reads deltaY.
SetTimeout(ts, delay, deltaY, t) ==
  ts \cup {[id |-> FreshTimerId(ts), deadline |-> t + delay, deltaY |-> deltaY]}

\* A task (an event, a click, a timer callback) may run: no animation frame is
\* being run.
TaskMayRun == frameQueue = <<>>

\* A timer whose delay has elapsed runs before later input is handled and
\* before the next frame.
NoTimerDue == \A t \in timers : now < t.deadline

(***************************************************************************)
(* Initial state: the state after the first run of the effect.             *)
(***************************************************************************)
Init ==
  /\ now = 0
  /\ currentViewpoint = 0
  /\ customPosition = Vec(0, 30, 0)
  /\ customLookAt = Vec(0, 0, 0)
  /\ isEditing = FALSE
  /\ isUserInteracting = FALSE
  /\ cameraPosition = ViewpointAt(0).position
  /\ controlsTarget = ViewpointAt(0).lookAt
  /\ sphericalDelta = 0
  /\ isAnimating = FALSE
  /\ trans = NoTransition
  /\ timers = {}
  /\ scrollTimeout = 0
  /\ rafQueue = <<"loop">>
  /\ frameQueue = <<>>
  /\ cleanedUp = FALSE
  /\ nextCount = 0
  /\ prevCount = 0
  /\ burst = NoBurst
  /\ closedBurst = NoBurst
  /\ editCount = 0
  /\ rejectedAt = -1

(***************************************************************************)
(* Actions.                                                                *)
(***************************************************************************)
\* The wheel listener.
HandleWheel(deltaY) ==
  /\ TaskMayRun
  /\ NoTimerDue
  /\ timers' = SetTimeout(ClearTimeout(timers, scrollTimeout), DebounceMs, deltaY, now)
  /\ scrollTimeout' = FreshTimerId(ClearTimeout(timers, scrollTimeout))
  /\ burst' = IF burst = NoBurst
                THEN [open |-> TRUE, first |-> now, mixed |-> FALSE,
                      time |-> now, deltaY |-> deltaY, intents |-> 0]
                ELSE [burst EXCEPT !.time = now, !.deltaY = deltaY,
                                   !.mixed = burst.mixed \/ deltaY # burst.deltaY]
  /\ rejectedAt' = -1
  /\ UNCHANGED <<now, currentViewpoint, customPosition, customLookAt,
                 isUserInteracting, frameQueue, nextCount, prevCount, editCount>>
  /\ closedBurst' = NoBurst
  /\ UNCHANGED engineVars
  /\ UNCHANGED cleanedUp

\* The callback of the wheel listener's timer tm.
ScrollTimeoutFires(tm) ==
  /\ TaskMayRun
  /\ tm \in timers
  /\ now >= tm.deadline
  /\ timers' = timers \ {tm}
  /\ currentViewpoint' = StepIndex(currentViewpoint, tm.deltaY)
  /\ EngineBecomes(SetViewpoint(Engine, StepIndex(currentViewpoint, tm.deltaY), now))
  /\ nextCount' = IF tm.deltaY > 0 THEN nextCount + 1 ELSE nextCount
  /\ prevCount' = IF tm.deltaY > 0 THEN prevCount ELSE prevCount + 1
  /\ burst' = IF timers = {tm} \/ burst = NoBurst
                THEN NoBurst
                ELSE [burst EXCEPT !.intents = burst.intents + 1]
  /\ closedBurst' = IF timers = {tm} /\ burst # NoBurst
                      THEN [open |-> FALSE, first |-> burst.first,
                            mixed |-> burst.mixed,
                            time |-> burst.time, deltaY |-> burst.deltaY,
                            intents |-> burst.intents + 1,
                            from |-> currentViewpoint, to |-> currentViewpoint']
                      ELSE NoBurst
  /\ rejectedAt' = IF isAnimating THEN now ELSE -1
  /\ UNCHANGED <<now, customPosition, customLookAt, isUserInteracting,
                 scrollTimeout, frameQueue, editCount>>
  /\ UNCHANGED cleanedUp

\* The next frame is displayed d ms later: its callbacks are those registered
\* so far.
Frame(d) ==
  /\ TaskMayRun
  /\ NoTimerDue
  /\ now' = now + d
  /\ frameQueue' = rafQueue
  /\ rafQueue' = <<>>
  /\ UNCHANGED <<currentViewpoint, customPosition, customLookAt, isEditing,
                 isUserInteracting, cameraPosition, controlsTarget, sphericalDelta,
                 isAnimating, trans, timers, scrollTimeout>>
  /\ closedBurst' = NoBurst
  /\ UNCHANGED <<nextCount, prevCount, burst, editCount, rejectedAt>>
  /\ UNCHANGED cleanedUp

\* The render loop's animate callback.
RenderLoopAnimate ==
  /\ frameQueue # <<>>
  /\ Head(frameQueue) = "loop"
  /\ frameQueue' = Tail(frameQueue)
  /\ rafQueue' = Append(rafQueue, "loop")
  /\ cameraPosition' = ControlsUpdate(cameraPosition, controlsTarget, sphericalDelta)
  /\ sphericalDelta' = Damped(sphericalDelta)
  /\ UNCHANGED <<now, currentViewpoint, customPosition, customLookAt, isEditing,
                 isUserInteracting, controlsTarget, isAnimating, trans, timers,
                 scrollTimeout>>
  /\ UNCHANGED historyVars
  /\ UNCHANGED cleanedUp

\* Math.round(x * 100) / 100 on each component; a component is held in
\* hundredths, and Math.round(n) is the floor of n + 0.5.
Round2(v) == [i \in Axes |-> (2 * v[i] + 1) \div 2]

\* The render loop's animate callback of the earlier version of the
\* component: after controls.update() it copies the camera's pose, rounded,
\* into the fields of the form.
RenderLoopAnimateLegacy ==
  /\ frameQueue # <<>>
  /\ Head(frameQueue) = "loop"
  /\ frameQueue' = Tail(frameQueue)
  /\ rafQueue' = Append(rafQueue, "loop")
  /\ cameraPosition' = ControlsUpdate(cameraPosition, controlsTarget, sphericalDelta)
  /\ sphericalDelta' = Damped(sphericalDelta)
  /\ customPosition' = Round2(cameraPosition')
  /\ customLookAt' = Round2(controlsTarget)
  /\ UNCHANGED <<now, currentViewpoint, isEditing, isUserInteracting,
                 controlsTarget, isAnimating, trans, timers, scrollTimeout>>
  /\ UNCHANGED historyVars
  /\ UNCHANGED cleanedUp

\* The running transition's animate callback.
TransitionTick ==
  /\ frameQueue # <<>>
  /\ Head(frameQueue) = "transition"
  /\ frameQueue' = Tail(frameQueue)
  /\ EngineBecomes(TransitionAnimate(Engine, now))
  /\ UNCHANGED <<now, currentViewpoint, customPosition, customLookAt,
                 isUserInteracting, timers, scrollTimeout>>
  /\ UNCHANGED historyVars
  /\ UNCHANGED cleanedUp

\* parseInt in the place of parseFloat: the fraction is dropped.
ParseInt(text) ==
  CASE text = "1.5" -> [isNaN |-> FALSE, value |-> 100]
    [] text = "0" -> [isNaN |-> FALSE, value |-> 0]
    [] OTHER -> [isNaN |-> TRUE, value |-> 0]

\* parseFloat(text): a number in hundredths, or NaN.
ParseFloat(text) ==
  CASE text = "1.5" -> [isNaN |-> FALSE, value |-> 150]
    [] text = "0" -> [isNaN |-> FALSE, value |-> 0]
    [] OTHER -> [isNaN |-> TRUE, value |-> 0]

\* parseFloat(e.target.value) || 0: NaN and 0 are falsy.
FieldValue(text) ==
  IF ParseFloat(text).isNaN \/ ParseFloat(text).value = 0
    THEN 0
    ELSE ParseFloat(text).value

\* onChange of a camera-position field.
ChangePositionField(axis, text) ==
  /\ TaskMayRun
  /\ NoTimerDue
  /\ customPosition' = [customPosition EXCEPT ![axis] = FieldValue(text)]
  /\ UNCHANGED <<now, currentViewpoint, customLookAt, isUserInteracting, timers,
                 scrollTimeout, frameQueue>>
  /\ UNCHANGED engineVars
  /\ editCount' = editCount + 1
  /\ rejectedAt' = -1
  /\ closedBurst' = NoBurst
  /\ UNCHANGED <<nextCount, prevCount, burst>>
  /\ UNCHANGED cleanedUp

\* onChange of a look-at field.
ChangeLookAtField(axis, text) ==
  /\ TaskMayRun
  /\ NoTimerDue
  /\ customLookAt' = [customLookAt EXCEPT ![axis] = FieldValue(text)]
  /\ UNCHANGED <<now, currentViewpoint, customPosition, isUserInteracting, timers,
                 scrollTimeout, frameQueue>>
  /\ UNCHANGED engineVars
  /\ editCount' = editCount + 1
  /\ rejectedAt' = -1
  /\ closedBurst' = NoBurst
  /\ UNCHANGED <<nextCount, prevCount, burst>>
  /\ UNCHANGED cleanedUp

\* onClick of the Apply Position button.
HandleCustomPosition ==
  /\ TaskMayRun
  /\ NoTimerDue
  /\ EngineBecomes(SetCustomViewpoint([Engine EXCEPT !.isEditing = TRUE],
                                      customPosition, customLookAt, now))
  /\ UNCHANGED <<now, currentViewpoint, customPosition, customLookAt,
                 isUserInteracting, timers, scrollTimeout, frameQueue>>
  /\ rejectedAt' = -1
  /\ closedBurst' = NoBurst
  /\ UNCHANGED <<nextCount, prevCount, burst, editCount>>
  /\ UNCHANGED cleanedUp

\* A "start" listener that also ends the running transition.
ControlsStartCancelling ==
  /\ TaskMayRun
  /\ NoTimerDue
  /\ ~isUserInteracting
  /\ isUserInteracting' = TRUE
  /\ isAnimating' = FALSE
  /\ trans' = NoTransition
  /\ rafQueue' = SelectSeq(rafQueue, LAMBDA c : c # "transition")
  /\ UNCHANGED <<now, currentViewpoint, customPosition, customLookAt, timers,
                 scrollTimeout, frameQueue, isEditing, cameraPosition,
                 controlsTarget, sphericalDelta>>
  /\ rejectedAt' = -1
  /\ closedBurst' = NoBurst
  /\ UNCHANGED <<nextCount, prevCount, burst, editCount>>
  /\ UNCHANGED cleanedUp

\* The "start" listener of the controls: a drag begins.
ControlsStart ==
  /\ TaskMayRun
  /\ NoTimerDue
  /\ ~isUserInteracting
  /\ isUserInteracting' = TRUE
  /\ UNCHANGED <<now, currentViewpoint, customPosition, customLookAt, timers,
                 scrollTimeout, frameQueue>>
  /\ UNCHANGED engineVars
  /\ rejectedAt' = -1
  /\ closedBurst' = NoBurst
  /\ UNCHANGED <<nextCount, prevCount, burst, editCount>>
  /\ UNCHANGED cleanedUp

\* A pointer move of a drag: OrbitControls notes the rotation asked for.
PointerMove ==
  /\ TaskMayRun
  /\ NoTimerDue
  /\ isUserInteracting
  /\ sphericalDelta = 0
  /\ sphericalDelta' = DampingUpdates
  /\ UNCHANGED <<now, currentViewpoint, customPosition, customLookAt, isEditing,
                 isUserInteracting, cameraPosition, controlsTarget, isAnimating,
                 trans, timers, scrollTimeout, rafQueue, frameQueue>>
  /\ rejectedAt' = -1
  /\ closedBurst' = NoBurst
  /\ UNCHANGED <<nextCount, prevCount, burst, editCount>>
  /\ UNCHANGED cleanedUp

\* The "end" listener of the controls: the drag ends.
ControlsEnd ==
  /\ TaskMayRun
  /\ NoTimerDue
  /\ isUserInteracting
  /\ isUserInteracting' = FALSE
  /\ UNCHANGED <<now, currentViewpoint, customPosition, customLookAt, timers,
                 scrollTimeout, frameQueue>>
  /\ UNCHANGED engineVars
  /\ rejectedAt' = -1
  /\ closedBurst' = NoBurst
  /\ UNCHANGED <<nextCount, prevCount, burst, editCount>>
  /\ UNCHANGED cleanedUp

\* The cleanup function of the effect: it removes the resize listener and
\* the canvas and disposes of the renderer.  It clears no timer, cancels no
\* animation frame and removes no wheel listener: the timers, the registered
\* frame callbacks and the closure variables are as they were.
Cleanup ==
  /\ TaskMayRun
  /\ NoTimerDue
  /\ ~cleanedUp
  /\ cleanedUp' = TRUE
  /\ UNCHANGED <<now, currentViewpoint, customPosition, customLookAt,
                 isUserInteracting, timers, scrollTimeout, frameQueue>>
  /\ UNCHANGED engineVars
  /\ rejectedAt' = -1
  /\ closedBurst' = NoBurst
  /\ UNCHANGED <<nextCount, prevCount, burst, editCount>>

(***************************************************************************)
(* Specifications.  The handlers above are the program; the bounds on what *)
(* the user does are stated here.                                          *)
(***************************************************************************)
\* Wheel events are delivered while fewer than limit intents were emitted.
WheelAllowed(limit) == nextCount + prevCount < limit

Next ==
  \/ \E deltaY \in DeltaYs : WheelAllowed(MaxIntents) /\ HandleWheel(deltaY)
  \/ \E tm \in timers : ScrollTimeoutFires(tm)
  \/ \E d \in FrameSteps : now + d <= MaxTime /\ Frame(d)
  \/ RenderLoopAnimate
  \/ TransitionTick
  \/ HandleCustomPosition
  \/ ControlsStart
  \/ PointerMove
  \/ ControlsEnd

Spec == Init /\ [][Next]_vars

\* Bursts of wheel events on a fine clock.
NextBurst ==
  \/ \E deltaY \in DeltaYs : WheelAllowed(MaxBurstIntents) /\ HandleWheel(deltaY)
  \/ \E tm \in timers : ScrollTimeoutFires(tm)
  \/ \E d \in BurstSteps : now + d <= MaxBurstTime /\ Frame(d)
  \/ RenderLoopAnimate
  \/ TransitionTick
  \/ HandleCustomPosition

SpecBurst == Init /\ [][NextBurst]_vars

\* Long sequences of navigation intents.
NextNav ==
  \/ \E deltaY \in DeltaYs : WheelAllowed(MaxNavIntents) /\ HandleWheel(deltaY)
  \/ \E tm \in timers : ScrollTimeoutFires(tm)
  \/ \E d \in NavSteps : now + d <= MaxTime /\ Frame(d)
  \/ RenderLoopAnimate
  \/ TransitionTick

SpecNav == Init /\ [][NextNav]_vars

\* The custom-pose form: edits of its six fields and clicks on Apply Position.
NextForm ==
  \/ \E axis \in Axes, text \in InputTexts :
        editCount < MaxEdits /\ ChangePositionField(axis, text)
  \/ \E axis \in Axes, text \in InputTexts :
        editCount < MaxEdits /\ ChangeLookAtField(axis, text)
  \/ HandleCustomPosition
  \/ \E deltaY \in DeltaYs : WheelAllowed(MaxFormIntents) /\ HandleWheel(deltaY)
  \/ \E tm \in timers : ScrollTimeoutFires(tm)
  \/ \E d \in FormSteps : now + d <= MaxTime /\ Frame(d)
  \/ RenderLoopAnimate
  \/ TransitionTick

SpecForm == Init /\ [][NextForm]_vars

\* One transition on a fine clock that can be set back.
NextClock ==
  \/ now \in ClickTimes /\ HandleCustomPosition
  \/ \E d \in ClockSteps : now + d \in 0..MaxClockTime /\ Frame(d)
  \/ RenderLoopAnimate
  \/ TransitionTick

SpecClock == Init /\ [][NextClock]_vars

\* In SpecLive a frame is displayed d ms later while the horizon is not
\* reached, and beyond it while a transition has not reached its duration.
FrameIsDue(d) ==
  \/ now + d <= MaxLiveTime
  \/ isAnimating /\ now < trans.startTime + trans.duration

\* The steps of a session in which frames keep being displayed while a
\* transition is active; the horizon bounds the idle time and the clicks.
NextLive ==
  \/ \E deltaY \in DeltaYs : WheelAllowed(MaxLiveIntents) /\ HandleWheel(deltaY)
  \/ \E tm \in timers : ScrollTimeoutFires(tm)
  \/ now <= MaxLiveTime /\ HandleCustomPosition
  \/ \E d \in LiveSteps : FrameIsDue(d) /\ Frame(d)
  \/ RenderLoopAnimate
  \/ TransitionTick

\* The browser keeps displaying frames while a transition is active, calls
\* every callback of a frame, and runs a timer callback that is due.
SpecLive ==
  /\ Init
  /\ [][NextLive]_vars
  /\ WF_vars(\E d \in LiveSteps : FrameIsDue(d) /\ Frame(d))
  /\ WF_vars(RenderLoopAnimate)
  /\ WF_vars(TransitionTick)
  /\ WF_vars(\E tm \in timers : ScrollTimeoutFires(tm))

\* The state after the first run of the effect of the earlier version of the
\* component: its first viewpoint is the top-down overview, and the first
\* call of the render loop has copied the camera's pose into the form.
InitLegacy ==
  /\ now = 0
  /\ currentViewpoint = 0
  /\ cameraPosition = Vec(0, 30, 0)
  /\ controlsTarget = Vec(0, 0, 0)
  /\ customPosition = Round2(cameraPosition)
  /\ customLookAt = Round2(controlsTarget)
  /\ isEditing = FALSE
  /\ isUserInteracting = FALSE
  /\ sphericalDelta = 0
  /\ isAnimating = FALSE
  /\ trans = NoTransition
  /\ timers = {}
  /\ scrollTimeout = 0
  /\ rafQueue = <<"loop">>
  /\ frameQueue = <<>>
  /\ cleanedUp = FALSE
  /\ nextCount = 0
  /\ prevCount = 0
  /\ burst = NoBurst
  /\ closedBurst = NoBurst
  /\ editCount = 0
  /\ rejectedAt = -1

\* The custom-pose form of the earlier version of the component.
NextLegacy ==
  \/ \E axis \in Axes, text \in InputTexts :
        editCount < MaxEdits /\ ChangePositionField(axis, text)
  \/ \E axis \in Axes, text \in InputTexts :
        editCount < MaxEdits /\ ChangeLookAtField(axis, text)
  \/ HandleCustomPosition
  \/ \E d \in LegacySteps : now + d <= MaxTime /\ Frame(d)
  \/ RenderLoopAnimateLegacy
  \/ TransitionTick

SpecLegacy == InitLegacy /\ [][NextLegacy]_vars

\* Wheel navigation with a cleanup of the effect at any moment; the mount
\* element stays in the document (the effect is run again, the component is
\* not removed), so wheel events still reach it.
NextCleanup ==
  \/ \E deltaY \in DeltaYs : WheelAllowed(MaxCleanupIntents) /\ HandleWheel(deltaY)
  \/ \E tm \in timers : ScrollTimeoutFires(tm)
  \/ \E d \in CleanupSteps : now + d <= MaxCleanupTime /\ Frame(d)
  \/ RenderLoopAnimate
  \/ TransitionTick
  \/ Cleanup

SpecCleanup == Init /\ [][NextCleanup]_vars

(***************************************************************************)
(* Properties.                                                             *)
(***************************************************************************)
\* A step that emits a navigation intent (the timer callback has run).
IntentStep == nextCount' + prevCount' = nextCount + prevCount + 1

\* A step in which animateToViewpoint is called: a navigation intent or a
\* click on Apply Position.
StartCall == (\E tm \in timers : ScrollTimeoutFires(tm)) \/ HandleCustomPosition

\* C1 (single-flight): a call of animateToViewpoint made while a transition
\* is active changes neither the transition's start pose, target pose and
\* start time nor the camera, and registers no second animation callback.
SingleFlight ==
  [][(isAnimating /\ StartCall) =>
       /\ trans' = trans
       /\ isAnimating'
       /\ rafQueue' = rafQueue
       /\ cameraPosition' = cameraPosition
       /\ controlsTarget' = controlsTarget]_vars

\* C1 witness: an advance request was dropped and the transition that made
\* animateToViewpoint drop it is still running.
SingleFlightWitness ==
  /\ isAnimating
  /\ rejectedAt # -1
  /\ rejectedAt > trans.startTime

\* C2: the current viewpoint index is an index of the catalog.
IndexInRange == currentViewpoint \in 0..(Length - 1)

\* C2 witness: the index has wrapped downwards from 0 and a drag and a
\* custom-pose transition have happened on the way.
IndexInRangeWitness ==
  /\ currentViewpoint = Length - 1
  /\ prevCount = 1
  /\ nextCount = 0
  /\ isUserInteracting
  /\ isAnimating
  /\ trans.targetPosition = customPosition

\* C3: a navigation intent emitted while a transition is active still moves
\* the index by one step in its direction, and the running transition keeps
\* its start pose, target pose and start time; an active transition stays
\* active, with the same target, until a step taken at least duration ms
\* after its start time.
IntentDuringTransition ==
  [][/\ (isAnimating /\ IntentStep) =>
          /\ currentViewpoint' =
               (currentViewpoint + (nextCount' - nextCount)
                  + (Length - 1) * (prevCount' - prevCount)) % Length
          /\ trans' = trans
     /\ isAnimating =>
          \/ /\ isAnimating'
             /\ trans'.targetPosition = trans.targetPosition
             /\ trans'.targetLookAt = trans.targetLookAt
             /\ trans'.startTime = trans.startTime
          \/ /\ ~isAnimating'
             /\ now >= trans.startTime + trans.duration]_vars

\* C3 witness: two Next intents 500 ms apart; the index is 2 while the
\* transition started by the first intent still targets viewpoint 1.
IntentDuringTransitionWitness ==
  /\ isAnimating
  /\ nextCount = 2
  /\ prevCount = 0
  /\ currentViewpoint = 2
  /\ trans.targetPosition = ViewpointAt(1).position
  /\ trans.targetLookAt = ViewpointAt(1).lookAt
  /\ rejectedAt = trans.startTime + 500
  /\ now > rejectedAt

\* C4: after an advance request is dropped, and with no further input, the
\* camera starts moving toward the pose of the displayed viewpoint within
\* DefaultDuration ms.  rejectedAt is the time of a dropped request that no
\* input and no accepted transition has followed.
InconsistencyBounded ==
  rejectedAt # -1 => now <= rejectedAt + DefaultDuration

\* C5: a burst of wheel events emits exactly one intent, and no earlier than
\* DebounceMs after its last event: while the burst is open its intent is
\* still pending and none was emitted; the step that closes it emits its
\* first and only intent, DebounceMs or more after the last event.
DebounceOnce ==
  /\ burst # NoBurst => (burst.intents = 0 /\ timers # {})
  /\ timers # {} => burst # NoBurst
  /\ closedBurst # NoBurst =>
       /\ closedBurst.intents = 1
       /\ now >= closedBurst.time + DebounceMs

\* C5 witness: a burst with events at 0 and 60 has emitted its intent at 160.
DebounceOnceWitness ==
  /\ closedBurst # NoBurst
  /\ closedBurst.first = 0
  /\ closedBurst.time = 60
  /\ now = 160
  /\ nextCount + prevCount = 1

\* C6: the direction of the intent a burst emits is that of the deltaY of
\* its last event: one step forward if it is positive, one step backward if
\* it is negative.
DirectionOfLastEvent ==
  closedBurst # NoBurst =>
    /\ closedBurst.deltaY > 0 => closedBurst.to = (closedBurst.from + 1) % Length
    /\ closedBurst.deltaY < 0 =>
         closedBurst.to = (closedBurst.from + Length - 1) % Length

\* C6 witness: a burst whose events differ in deltaY, spread over time, has
\* emitted the intent of its last, positive, event.
DirectionOfLastEventWitness ==
  /\ closedBurst # NoBurst
  /\ closedBurst.mixed
  /\ closedBurst.first < closedBurst.time
  /\ closedBurst.deltaY > 0
  /\ closedBurst.from = 0
  /\ closedBurst.to = 1

\* C7: a wheel event with deltaY = 0 is ignored: it changes neither the
\* pending timers, nor the index, nor the transition, and no intent is
\* emitted for it.
ZeroDeltaIgnored ==
  /\ [][HandleWheel(0) =>
          /\ timers' = timers
          /\ currentViewpoint' = currentViewpoint
          /\ trans' = trans
          /\ isAnimating' = isAnimating]_vars
  /\ [](closedBurst # NoBurst => closedBurst.deltaY # 0)

\* C8: a click on Apply Position never changes the index; when no
\* transition is active it makes one active whose target pose is the pose of
\* the form and whose start pose is the camera's.
CustomPoseRequest ==
  [][HandleCustomPosition =>
       /\ currentViewpoint' = currentViewpoint
       /\ ~isAnimating =>
            /\ isAnimating'
            /\ trans'.targetPosition = customPosition
            /\ trans'.targetLookAt = customLookAt
            /\ trans'.startPosition = cameraPosition
            /\ trans'.startLookAt = controlsTarget
            /\ trans'.startTime = now]_vars

\* C8 witness: a transition toward an edited pose of the form is running
\* and the index is where a navigation intent had left it.
CustomPoseRequestWitness ==
  /\ isAnimating
  /\ editCount > 0
  /\ customPosition[1] = 150
  /\ customPosition # customLookAt
  /\ trans.targetPosition = customPosition
  /\ trans.targetLookAt = customLookAt
  /\ nextCount = 1
  /\ currentViewpoint = 1

\* C9: navigation is cyclic in catalog order: from index 0, after any
\* sequence with n Next intents and p Prev intents the index is
\* (n - p) mod Length.
CyclicNavigation ==
  currentViewpoint = (nextCount + (Length - 1) * prevCount) % Length

\* C9 witness: one Prev intent at index 0 and six Next intents: the index
\* has wrapped in both directions and is Length - 1.
CyclicNavigationWitness ==
  /\ prevCount = 1
  /\ nextCount = Length
  /\ currentViewpoint = Length - 1

\* C10: the two index steps are inverses of each other at the current index.
CyclicInverse ==
  /\ NextIndex(PrevIndex(currentViewpoint)) = currentViewpoint
  /\ PrevIndex(NextIndex(currentViewpoint)) = currentViewpoint

\* C10 witness: a Next and a Prev intent have brought the index back to 0.
CyclicInverseWitness ==
  /\ nextCount = 1
  /\ prevCount = 1
  /\ currentViewpoint = 0

\* C11: the tick at elapsed time 0 (the call of animate() that
\* animateToViewpoint makes itself) leaves the camera at the start pose, and
\* the tick that ends a transition leaves the camera exactly at the
\* transition's target pose, position and look-at.
TickEndpointsExact ==
  [][/\ (~isAnimating /\ isAnimating') =>
          /\ cameraPosition' = cameraPosition
          /\ controlsTarget' = controlsTarget
     /\ (isAnimating /\ ~isAnimating') =>
          /\ cameraPosition' = trans.targetPosition
          /\ controlsTarget' = trans.targetLookAt]_vars

\* The animation frame that is being run has made its render call: the
\* render loop's callback is no longer among the callbacks still to be called.
RenderDone ==
  /\ frameQueue # <<>>
  /\ \A i \in DOMAIN frameQueue : frameQueue[i] # "loop"

\* C14: in a frame in which a transition is active the pose tick runs before
\* the frame's render call: when the tick is the next callback to be called,
\* the frame has not rendered yet.
TickBeforeRender ==
  (frameQueue # <<>> /\ Head(frameQueue) = "transition") => ~RenderDone

\* The pose the running transition's interpolation gives at clock reading t.
LerpPosition(t) ==
  LerpVectors(trans.startPosition, trans.targetPosition,
              Ease(Progress(t - trans.startTime, trans.duration)))

\* C15: in a frame the transition is the last writer of the camera pose: the
\* pose the tick leaves is the interpolated pose, whatever the drag has asked
\* for; and a drag excludes no transition: a start request made during a drag,
\* with no transition active, is accepted.
TransitionLastWriter ==
  [][/\ TransitionTick =>
          /\ cameraPosition' = LerpPosition(now)
          /\ controlsTarget' =
               LerpVectors(trans.startLookAt, trans.targetLookAt,
                           Ease(Progress(now - trans.startTime, trans.duration)))
     /\ (isUserInteracting /\ ~isAnimating /\ StartCall) => isAnimating']_vars

\* The progress value the running transition's tick computes at the current
\* clock reading.
TickProgress == Progress(now - trans.startTime, trans.duration)

\* C12: the ease is monotonic non-decreasing on [0, 1]: its value at every
\* progress up to the one the transition has reached is at most its value
\* there; and e(0) = 0, e(0.5) = 0.5, e(1) = 1.
EaseMonotonic ==
  (trans.active /\ TickProgress >= 0) =>
    /\ \A q \in 0..TickProgress : Ease(q) <= Ease(TickProgress)
    /\ TickProgress = 0 => Ease(TickProgress) = 0
    /\ TickProgress = 500 => Ease(TickProgress) = 500
    /\ TickProgress = 1000 => Ease(TickProgress) = 1000

\* C12 witness: the tick has run just past the middle of the transition,
\* where the ease changes branch, and has written the eased pose.
EaseMonotonicWitness ==
  /\ trans.active
  /\ frameQueue = <<>>
  /\ TickProgress = 501
  /\ Ease(TickProgress) > Ease(499)
  /\ cameraPosition = LerpPosition(now)

\* C13: the progress fed to the ease by a tick is clamped into [0, 1]: 0 when
\* the clock reads the start time or earlier, 1 when duration ms or more have
\* elapsed, elapsed / duration otherwise.
ProgressClamped ==
  (frameQueue # <<>> /\ Head(frameQueue) = "transition") =>
    /\ now <= trans.startTime => TickProgress = 0
    /\ now - trans.startTime >= trans.duration => TickProgress = 1000
    /\ (now > trans.startTime /\ now - trans.startTime < trans.duration) =>
         TickProgress = ((now - trans.startTime) * 1000) \div trans.duration

\* C16: every accepted transition eventually becomes inactive, and once it
\* is inactive a start request is accepted again.
TransitionEnds ==
  /\ isAnimating ~> ~isAnimating
  /\ [][(~isAnimating /\ StartCall) => isAnimating']_vars

\* C16 witness: a transition has ended and a start request made after its
\* end was accepted: a second transition is running.
TransitionEndsWitness ==
  /\ isAnimating
  /\ trans.startTime >= DefaultDuration
  /\ trans.startPosition = customPosition

\* Number of calls of the transition's animate callback that are scheduled:
\* registered for the next frame, or still to be made in the running frame.
ScheduledTicks ==
  Cardinality({i \in DOMAIN (rafQueue \o frameQueue) :
                 (rafQueue \o frameQueue)[i] = "transition"})

\* C17: there is no cancellation.  Whatever happens while a transition is
\* active (an intent, a click on Apply Position, a drag start or end, a
\* frame), either it stays active with its start pose, target pose, start
\* time and duration and with no second callback scheduled, or the step is a
\* tick with elapsed >= duration, which ends it and leaves nothing queued
\* behind it.
NoCancellation ==
  [][isAnimating =>
       \/ /\ isAnimating'
          /\ trans' = trans
          /\ ScheduledTicks' <= 1
       \/ /\ ~isAnimating'
          /\ TransitionTick
          /\ now - trans.startTime >= trans.duration
          /\ trans' = NoTransition
          /\ ScheduledTicks' = 0]_vars

\* C17 witness: during a transition a drag has started and then a navigation
\* intent was dropped; the transition is still running.
NoCancellationWitness ==
  /\ isAnimating
  /\ isUserInteracting
  /\ rejectedAt # -1
  /\ rejectedAt > trans.startTime
  /\ now < trans.startTime + trans.duration

\* C18: at most one transition exists: at most one call of its animate
\* callback is scheduled, and one is scheduled exactly when the transition
\* is active, so that a frame makes at most one such call.
OneTransition ==
  /\ ScheduledTicks <= 1
  /\ ScheduledTicks = 1 <=> isAnimating
  /\ isAnimating <=> trans.active

\* C18 witness: a frame of an active transition is being run and its one tick
\* is still to be called, after a start request was dropped.
OneTransitionWitness ==
  /\ isAnimating
  /\ frameQueue = <<"transition">>
  /\ rafQueue = <<"loop">>
  /\ nextCount + prevCount = 2

\* The number a field's text stands for, in hundredths, and 0 for a text that
\* is empty or not a number.
EnteredValue(text) ==
  CASE text = "1.5" -> 150
    [] text = "0" -> 0
    [] OTHER -> 0

\* C19: an edit of any of the six fields stores the number entered, and 0 for
\* an empty or invalid text, in that field only; and a click on Apply
\* Position made when no transition is active is accepted with the stored
\* pose as its target, whatever was typed before.
InvalidInputIsZero ==
  [][/\ \A axis \in Axes, text \in InputTexts :
          /\ ChangePositionField(axis, text) =>
               /\ customPosition'[axis] = EnteredValue(text)
               /\ \A other \in Axes \ {axis} :
                    customPosition'[other] = customPosition[other]
               /\ customLookAt' = customLookAt
          /\ ChangeLookAtField(axis, text) =>
               /\ customLookAt'[axis] = EnteredValue(text)
               /\ \A other \in Axes \ {axis} :
                    customLookAt'[other] = customLookAt[other]
               /\ customPosition' = customPosition
     /\ (HandleCustomPosition /\ ~isAnimating) =>
          /\ isAnimating'
          /\ trans'.targetPosition = customPosition
          /\ trans'.targetLookAt = customLookAt]_vars

\* C19 witness: the y field of the position was emptied (0 stands in for
\* it), 1.5 was typed into the x field of the look-at, and the request made
\* afterwards was accepted with that pose.
InvalidInputIsZeroWitness ==
  /\ editCount = 2
  /\ customPosition = <<0, 0, 0>>
  /\ customLookAt = <<150, 0, 0>>
  /\ isAnimating
  /\ trans.targetPosition = customPosition
  /\ trans.targetLookAt = customLookAt

\* C20: the pose a custom-pose request takes as its target is the pose the
\* user entered: once the user has edited a field, and while no transition
\* runs, no frame callback changes the values of the form.
EnteredPoseKept ==
  [][(editCount > 0 /\ ~isAnimating /\ frameQueue # <<>>) =>
       /\ customPosition' = customPosition
       /\ customLookAt' = customLookAt]_vars

\* Number of calls of the render loop's callback registered for the next
\* frame.
LoopsRegistered ==
  Cardinality({i \in DOMAIN rafQueue : rafQueue[i] = "loop"})

\* C21: after the cleanup of the effect none of its callbacks acts: the
\* wheel listener sets no timer, a pending timer neither changes the index
\* nor starts a transition, and the render loop registers no further frame
\* callback.
CleanupStopsCallbacks ==
  [][cleanedUp =>
       /\ timers' \subseteq timers
       /\ currentViewpoint' = currentViewpoint
       /\ isAnimating' => isAnimating
       /\ LoopsRegistered' <= LoopsRegistered]_vars

====
